---- MODULE Spec2Model ----
(***************************************************************************)
(* Model of src/app.py, the Streamlit taxi-fare estimator.                 *)
(*                                                                         *)
(* Streamlit runs the script top to bottom once per user event.  One run   *)
(* is modelled as three consecutive steps, in script order:                *)
(*   1. the sidebar (lines 222-370): the two text inputs, the "Locate on   *)
(*      map" button, the "Estimate fare" button; this step is taken        *)
(*      together with the user event that starts the run;                  *)
(*   2. the map widget and the click handler (lines 428-460);              *)
(*   3. the "Clear coordinates" button (lines 463-469);                    *)
(* and then the run ends: the script's locals are dropped and the page     *)
(* waits for the next event.  An uncaught exception ends the run where it  *)
(* is raised.                                                              *)
(*                                                                         *)
(* Python None is the empty tuple for coordinates (a coordinate is a pair  *)
(* <<lat, lon>>), and the empty set for an optional string or number (a    *)
(* present value v is {v}).  Strings the code inspects character by        *)
(* character (addresses, URLs) are sequences of one-character strings.     *)
(***************************************************************************)
EXTENDS Integers, Sequences, FiniteSets, TLC

VARIABLES
    session_state,   \* st.session_state: pickup/dropoff address and coords
    geocode_cache,   \* st.cache_data memo of geocode_address
    reverse_cache,   \* st.cache_data memo of reverse_geocode
    last_clicked,    \* "last_clicked" of the value the map component holds
    secrets,         \* what the current run read from st.secrets ({} = not read)
    pc,              \* position of the run: "idle", "map", "clear", "end"
    trigger,         \* the user event that started the current run
    messages,        \* st.warning/error/success/info shown by the current run
    sent,            \* HTTP requests issued by the current run
    resp,            \* the HTTP outcome of the current run ({} = none)
    fare_shown,      \* the amount of "Estimated fare" in cents ({} = none)
    form,            \* slider, date and time the Estimate handler read ({} = none)
    lookups,         \* the geocode_address / reverse_geocode calls of this run
    provider_calls,  \* provider invocations so far, per function and input
    clickNo,         \* clicks since EMPTY with no other action; -1 otherwise
    clicks_only      \* no action but map clicks and Clear so far

vars == <<session_state, geocode_cache, reverse_cache, last_clicked, secrets,
          pc, trigger, messages, sent, resp, fare_shown, form, lookups,
          provider_calls, clickNo, clicks_only>>

-----------------------------------------------------------------------------
(* Bounds and input samples *)

\* Longest click-only sequence that is followed click by click.
MaxClicks == 5

\* Provider invocations counted per input (the count stops there).
MaxCalls == 2

None == <<>>

\* Addresses the user can type: "", " ", "a".
Addresses == {<<>>, <<" ">>, <<"a">>}

\* Map locations, as (lat, lon).
Locations == {<<40, -74>>, <<41, -73>>}

\* The place the geocoding provider knows for an address, when it answers.
PlaceOf(address) ==
    IF address = <<"a">> THEN <<40, -74>> ELSE None

\* The address the geocoding provider knows for a location, when it answers:
\* both map locations lie at address "a".
AddressOf(lat, lon) ==
    IF <<lat, lon>> \in Locations THEN {<<"a">>} ELSE {}

\* Slider range, line 279.
PassengersMin == 1
PassengersMax == 8

\* Slider positions tried.
PassengerChoices == {PassengersMin, PassengersMax}

\* Values of the date and time inputs, lines 282-283.
DateChoices == {[year |-> 2026, month |-> 1, day |-> 2]}
TimeChoices == {[hour |-> 13, minute |-> 4, second |-> 5]}

\* SERVICE_URL of secrets.toml: absent ({}), "", "h://s/".
SecretsChoices == {{}, {<<>>}, {<<"h", ":", "/", "/", "s", "/">>}}

\* What one provider call can do: find the place ("match"), or find nothing
\* or raise GeocoderServiceError, time-outs included ("fail").
ProviderOutcomes == {"match", "fail"}

-----------------------------------------------------------------------------
(* Geocoding, lines 184-205 *)

RECURSIVE LStrip(_)
LStrip(s) == IF s # <<>> /\ Head(s) = " " THEN LStrip(Tail(s)) ELSE s

RECURSIVE RStrip(_)
RStrip(s) ==
    IF s # <<>> /\ s[Len(s)] = " " THEN RStrip(SubSeq(s, 1, Len(s) - 1)) ELSE s

\* str.strip()
Strip(s) == RStrip(LStrip(s))

\* Mutant: only the empty string is turned away.
IsBlankEmptyOnly(address) == address = <<>>

\* Line 186.
IsBlank(address) == address = <<>> \/ Strip(address) = <<>>

\* The body of geocode_address, run on a cache miss.
GeocodeBody(address, outcome) ==
    IF IsBlank(address) THEN None
    ELSE IF outcome = "match" THEN PlaceOf(address)
    ELSE None

\* The inputs the body of geocode_address hands to the provider (line 189).
GeocodeProvider(address) == IF IsBlank(address) THEN <<>> ELSE <<address>>

\* Mutant: only a found location is answered from the memo.
geocode_addressRetriesFailures(cache, address, outcome) ==
    IF address \in DOMAIN cache /\ cache[address] # None
    THEN [result |-> cache[address], cache |-> cache, provider |-> <<>>,
          log |-> <<[fn |-> "geocode", key |-> address, hit |-> TRUE,
                     result |-> cache[address]]>>]
    ELSE LET r == GeocodeBody(address, outcome)
         IN  [result |-> r, cache |-> (address :> r) @@ cache,
              provider |-> GeocodeProvider(address),
              log |-> <<[fn |-> "geocode", key |-> address, hit |-> FALSE,
                         result |-> r]>>]

\* Mutant: no memo, the body runs on every call.
geocode_addressUncached(cache, address, outcome) ==
    LET r == GeocodeBody(address, outcome)
    IN  [result |-> r, cache |-> (address :> r) @@ cache,
         provider |-> GeocodeProvider(address),
         log |-> <<[fn |-> "geocode", key |-> address, hit |-> FALSE,
                    result |-> r]>>]

\* geocode_address under st.cache_data: the result, the memo after the call,
\* the provider invocations made, and whether the memo answered.
geocode_address(cache, address, outcome) ==
    IF address \in DOMAIN cache
    THEN [result |-> cache[address], cache |-> cache, provider |-> <<>>,
          log |-> <<[fn |-> "geocode", key |-> address, hit |-> TRUE,
                     result |-> cache[address]]>>]
    ELSE LET r == GeocodeBody(address, outcome)
         IN  [result |-> r, cache |-> (address :> r) @@ cache,
              provider |-> GeocodeProvider(address),
              log |-> <<[fn |-> "geocode", key |-> address, hit |-> FALSE,
                         result |-> r]>>]

\* The body of reverse_geocode, run on a cache miss.
ReverseBody(lat, lon, outcome) ==
    IF outcome = "match" THEN AddressOf(lat, lon) ELSE {}

\* reverse_geocode under st.cache_data.
reverse_geocode(cache, lat, lon, outcome) ==
    IF <<lat, lon>> \in DOMAIN cache
    THEN [result |-> cache[<<lat, lon>>], cache |-> cache, provider |-> <<>>,
          log |-> <<[fn |-> "reverse", key |-> <<lat, lon>>, hit |-> TRUE,
                     result |-> cache[<<lat, lon>>]]>>]
    ELSE LET r == ReverseBody(lat, lon, outcome)
         IN  [result |-> r, cache |-> (<<lat, lon>> :> r) @@ cache,
              provider |-> << <<lat, lon>> >>,
              log |-> <<[fn |-> "reverse", key |-> <<lat, lon>>,
                         hit |-> FALSE, result |-> r]>>]

\* The count of provider invocations per input, after the invocations `keys`.
RECURSIVE Counted(_, _)
Counted(count, keys) ==
    IF keys = <<>> THEN count
    ELSE Counted([count EXCEPT ![Head(keys)] =
                      IF @ < MaxCalls THEN @ + 1 ELSE @],
                 Tail(keys))

\* The provider outcomes to consider for a call of a memoized function: the
\* provider is called on a miss only ("unused" otherwise).
OutcomesFor(cache, key, called) ==
    IF called /\ key \notin DOMAIN cache THEN ProviderOutcomes ELSE {"unused"}

\* Truth value of an optional string: None and "" are false.
AddressTruthy(address) == address # {} /\ address # {<<>>}

-----------------------------------------------------------------------------
(* Session state, lines 210-217 *)

InitialSession ==
    [pickup_address |-> <<>>, dropoff_address |-> <<>>,
     pickup_coords |-> None, dropoff_coords |-> None]

-----------------------------------------------------------------------------
(* Map click handler, lines 431-460 *)

\* Mutant: a failed reverse geocode blanks the address field.
WithAddressOrEmpty(old, address) ==
    IF AddressTruthy(address) THEN CHOOSE a \in address : TRUE ELSE <<>>

\* Lines 442-443, 449-450, 458-459: the address field after a click.
WithAddress(old, address) ==
    IF AddressTruthy(address) THEN CHOOSE a \in address : TRUE ELSE old

\* Mutant: the restart overwrites the pickup and keeps the dropoff point.
RestartSelectionKeepsDropoff(ss, lat, lon, address) ==
    [ss EXCEPT !.pickup_coords = <<lat, lon>>,
               !.pickup_address = WithAddress(@, address)]

\* Mutant: the restart clears the dropoff point and keeps its address.
RestartSelectionKeepsDropoffAddress(ss, lat, lon, address) ==
    [ss EXCEPT !.pickup_coords = <<lat, lon>>,
               !.dropoff_coords = None,
               !.pickup_address = WithAddress(@, address)]

\* Lines 455-459: both points were set, the selection starts again.
RestartSelection(ss, lat, lon, address) ==
    [ss EXCEPT !.pickup_coords = <<lat, lon>>,
               !.dropoff_coords = None,
               !.dropoff_address = <<>>,
               !.pickup_address = WithAddress(@, address)]

\* Mutant: selecting the pickup point starts the selection over.
ClickHandlerPickupRestarts(ss, lat, lon, address) ==
    IF ss.pickup_coords = None
    THEN [state |-> RestartSelection(ss, lat, lon, address),
          message |-> "pickup_selected"]
    ELSE IF ss.dropoff_coords = None
    THEN [state |-> [ss EXCEPT !.dropoff_coords = <<lat, lon>>,
                               !.dropoff_address = WithAddress(@, address)],
          message |-> "dropoff_selected"]
    ELSE [state |-> RestartSelection(ss, lat, lon, address),
          message |-> "restart"]

\* Lines 439-460: the new session state and the message shown.
ClickHandler(ss, lat, lon, address) ==
    IF ss.pickup_coords = None
    THEN [state |-> [ss EXCEPT !.pickup_coords = <<lat, lon>>,
                               !.pickup_address = WithAddress(@, address)],
          message |-> "pickup_selected"]
    ELSE IF ss.dropoff_coords = None
    THEN [state |-> [ss EXCEPT !.dropoff_coords = <<lat, lon>>,
                               !.dropoff_address = WithAddress(@, address)],
          message |-> "dropoff_selected"]
    ELSE [state |-> RestartSelection(ss, lat, lon, address),
          message |-> "restart"]

-----------------------------------------------------------------------------
(* Clear coordinates button, lines 464-469 *)

\* Mutant: the button clears the coordinates only.
ClearHandlerCoordsOnly(ss) ==
    [ss EXCEPT !.pickup_coords = None, !.dropoff_coords = None]

ClearHandler(ss) ==
    [ss EXCEPT !.pickup_coords = None, !.dropoff_coords = None,
               !.pickup_address = <<>>, !.dropoff_address = <<>>]

-----------------------------------------------------------------------------
(* Locate on map button, lines 263-276 *)

\* Truth value of a tuple or None: a coordinate pair is always true.
CoordsTruthy(c) == c # None

\* Mutant: the geocoding result is stored even when it is None.
LocateSideAlwaysAssigns(old, found) == found

\* Lines 266-269 and 273-276: one side of the Locate handler.
LocateSide(old, found) == IF CoordsTruthy(found) THEN found ELSE old

LocateHandler(ss, cache, o1, o2) ==
    LET g1 == geocode_address(cache, ss.pickup_address, o1)
        g2 == geocode_address(g1.cache, ss.dropoff_address, o2)
    IN  [state |-> [ss EXCEPT
                       !.pickup_coords = LocateSide(@, g1.result),
                       !.dropoff_coords = LocateSide(@, g2.result)],
         cache |-> g2.cache,
         provider |-> g1.provider \o g2.provider,
         log |-> g1.log \o g2.log,
         messages |->
             (IF CoordsTruthy(g1.result) THEN {} ELSE {"warn_pickup_geocode"})
             \cup
             (IF CoordsTruthy(g2.result) THEN {} ELSE {"warn_dropoff_geocode"})]

-----------------------------------------------------------------------------
(* Estimate fare button, lines 286-370 *)

\* Mutant: both sides are geocoded from their address text on every Estimate.
EstimateGeocodeAlways(ss, cache, o1, o2) ==
    LET g1 == geocode_address(cache, ss.pickup_address, o1)
        g2 == geocode_address(g1.cache, ss.dropoff_address, o2)
    IN  [state |-> [ss EXCEPT !.pickup_coords = g1.result,
                              !.dropoff_coords = g2.result],
         cache |-> g2.cache,
         provider |-> g1.provider \o g2.provider,
         log |-> g1.log \o g2.log]

\* Lines 288-291: a missing coordinate is geocoded from the typed address.
EstimateGeocode(ss, cache, o1, o2) ==
    LET g1 == IF ss.pickup_coords = None
              THEN geocode_address(cache, ss.pickup_address, o1)
              ELSE [result |-> ss.pickup_coords, cache |-> cache,
                    provider |-> <<>>, log |-> <<>>]
        g2 == IF ss.dropoff_coords = None
              THEN geocode_address(g1.cache, ss.dropoff_address, o2)
              ELSE [result |-> ss.dropoff_coords, cache |-> g1.cache,
                    provider |-> <<>>, log |-> <<>>]
    IN  [state |-> [ss EXCEPT !.pickup_coords = g1.result,
                              !.dropoff_coords = g2.result],
         cache |-> g2.cache,
         provider |-> g1.provider \o g2.provider,
         log |-> g1.log \o g2.log]

\* Line 293.
CoordsMissing(ss) == ss.pickup_coords = None \/ ss.dropoff_coords = None

\* The digits of n, w wide, zero padded (strftime's %Y, %m, %d, %H, %M, %S).
RECURSIVE Digits(_, _)
Digits(n, w) ==
    IF w = 0 THEN <<>> ELSE Digits(n \div 10, w - 1) \o <<ToString(n % 10)>>

\* Line 301: strftime("%Y-%m-%d %H:%M:%S").
FormatDateTime(d, t) ==
    Digits(d.year, 4) \o <<"-">> \o Digits(d.month, 2) \o <<"-">>
    \o Digits(d.day, 2) \o <<" ">> \o Digits(t.hour, 2) \o <<":">>
    \o Digits(t.minute, 2) \o <<":">> \o Digits(t.second, 2)

\* Mutant: latitude and longitude change places on each side.
BuildPayloadSwapped(ss, passengers, d, t) ==
    [pickup_datetime   |-> FormatDateTime(d, t),
     pickup_longitude  |-> ss.pickup_coords[1],
     pickup_latitude   |-> ss.pickup_coords[2],
     dropoff_longitude |-> ss.dropoff_coords[1],
     dropoff_latitude  |-> ss.dropoff_coords[2],
     passenger_count   |-> passengers]

\* Lines 297-311.
BuildPayload(ss, passengers, d, t) ==
    LET pickup_lat  == ss.pickup_coords[1]
        pickup_lon  == ss.pickup_coords[2]
        dropoff_lat == ss.dropoff_coords[1]
        dropoff_lon == ss.dropoff_coords[2]
    IN  [pickup_datetime   |-> FormatDateTime(d, t),
         pickup_longitude  |-> pickup_lon,
         pickup_latitude   |-> pickup_lat,
         dropoff_longitude |-> dropoff_lon,
         dropoff_latitude  |-> dropoff_lat,
         passenger_count   |-> passengers]

\* Mutant: a missing SERVICE_URL falls back to a built-in address.
LookupServiceUrlDefault(sec) ==
    IF sec = {} THEN [service_url |-> {<<"h", ":", "/", "/", "d">>}, error |-> FALSE]
    ELSE [service_url |-> sec, error |-> FALSE]

\* Lines 314-318: the URL read from the secrets ({} = None), and whether the
\* lookup raised.
LookupServiceUrl(sec) ==
    IF sec = {} THEN [service_url |-> {}, error |-> TRUE]
    ELSE [service_url |-> sec, error |-> FALSE]

\* Line 320: truth value of service_url.
UrlTruthy(service_url) == service_url # {} /\ service_url # {<<>>}

\* str.rstrip('/')
RECURSIVE RStripSlash(_)
RStripSlash(s) ==
    IF s # <<>> /\ s[Len(s)] = "/"
    THEN RStripSlash(SubSeq(s, 1, Len(s) - 1)) ELSE s

\* Line 322.
PredictUrl(url) == RStripSlash(url) \o <<"/", "p", "r", "e", "d", "i", "c", "t">>

\* quote_plus of one character of the date-time string.
QuotePlusChar(ch) ==
    IF ch = " " THEN "+" ELSE IF ch = ":" THEN "%3A" ELSE ch

QuotePlus(s) == [i \in 1..Len(s) |-> QuotePlusChar(s[i])]

\* Line 325: the query, one <<key, value>> per field in the payload's order.
UrlEncode(payload) ==
    << <<"pickup_datetime", QuotePlus(payload.pickup_datetime)>>,
       <<"pickup_longitude", <<payload.pickup_longitude>> >>,
       <<"pickup_latitude", <<payload.pickup_latitude>> >>,
       <<"dropoff_longitude", <<payload.dropoff_longitude>> >>,
       <<"dropoff_latitude", <<payload.dropoff_latitude>> >>,
       <<"passenger_count", <<payload.passenger_count>> >> >>

\* Lines 322-326: the GET request.
FareRequest(url, payload) ==
    [url |-> PredictUrl(url), query |-> UrlEncode(payload)]

-----------------------------------------------------------------------------
(* Response values.  Numbers are in thousandths. *)

JNull == [t |-> "null"]
JNum(n) == [t |-> "num", n |-> n]
JStr(s) == [t |-> "str", s |-> s]
JList(items) == [t |-> "list", items |-> items]
\* An object is the sequence of its <<key, value>> members.
JObj(members) == [t |-> "obj", members |-> members]

\* Python truth value.
Truthy(v) ==
    CASE v.t = "null" -> FALSE
      [] v.t = "num"  -> v.n # 0
      [] v.t = "str"  -> v.s # <<>>
      [] v.t = "list" -> v.items # <<>>
      [] v.t = "obj"  -> v.members # <<>>

\* Python "a or b".
PyOr(a, b) == IF Truthy(a) THEN a ELSE b

HasKey(obj, k) == \E i \in 1..Len(obj.members) : obj.members[i][1] = k

\* dict.get(k): None when the key is missing.
Get(obj, k) ==
    IF HasKey(obj, k)
    THEN obj.members[CHOOSE i \in 1..Len(obj.members) : obj.members[i][1] = k][2]
    ELSE JNull

\* float() of the sample strings: {} when float() raises.
ParseFloat(s) ==
    IF s = <<"7", ".", "5">> THEN {7500}
    ELSE IF s = <<"7">> THEN {7000}
    ELSE {}

\* float(v): {} when it raises ValueError or TypeError.
Float(v) ==
    CASE v.t = "num" -> {v.n}
      [] v.t = "str" -> ParseFloat(v.s)
      [] OTHER       -> {}

\* v[0]: {} when it raises.
First(v) ==
    CASE v.t = "list" /\ v.items # <<>> -> {v.items[1]}
      [] v.t = "str" /\ v.s # <<>>      -> {JStr(<<v.s[1]>>)}
      [] OTHER                          -> {}

\* Response bodies the endpoint can send with a success status.
Bodies ==
    { [content |-> "empty"],
      [content |-> "text"],
      [content |-> "json", json |-> JNum(12500)],
      [content |-> "json", json |-> JNum(0)],
      [content |-> "json", json |-> JObj(<<>>)],
      [content |-> "json", json |-> JObj(<< <<"prediction", JNum(14237)>> >>)],
      [content |-> "json", json |-> JObj(<< <<"fare", JNum(9300)>> >>)],
      [content |-> "json", json |-> JObj(<< <<"pred", JNum(9300)>> >>)],
      [content |-> "json", json |-> JObj(<< <<"fare", JNum(0)>> >>)],
      [content |-> "json", json |-> JObj(<< <<"pred", JNum(0)>> >>)],
      [content |-> "json", json |-> JObj(<< <<"fare", JStr(<<"a">>)>> >>)],
      [content |-> "json",
       json |-> JObj(<< <<"predictions", JList(<<JNum(14200), JNum(0)>>)>> >>)],
      [content |-> "json",
       json |-> JObj(<< <<"predictions", JList(<<>>)>> >>)],
      [content |-> "json",
       json |-> JObj(<< <<"fare", JNum(0)>>,
                        <<"predictions", JList(<<JNum(14200)>>)>> >>)] }

\* What requests.get can do: raise a RequestException before any response,
\* or return a response.
HttpOutcomes ==
    {[kind |-> "network_error"]}
    \cup {[kind |-> "response", status |-> 200, body |-> b] : b \in Bodies}
    \cup {[kind |-> "response", status |-> st, body |-> [content |-> "text"]] :
              st \in {405, 500}}

\* Lines 340-355 for the parsed body `data` (JNull is None).  With data None,
\* line 344 is float("") or float("null"), which raises: prediction is None.
ParsePrediction(data) ==
    CASE data.t = "null" -> JNull
      [] data.t = "num"  -> data
      [] data.t = "obj"  ->
           LET prediction == PyOr(PyOr(Get(data, "prediction"),
                                       Get(data, "fare")),
                                  Get(data, "pred"))
           IN  IF prediction = JNull /\ HasKey(data, "predictions")
               THEN LET first == First(Get(data, "predictions"))
                        f == IF first = {} THEN {}
                             ELSE Float(CHOOSE x \in first : TRUE)
                    IN  IF f = {} THEN JNull
                        ELSE JNum(CHOOSE x \in f : TRUE)
               ELSE prediction
      [] OTHER -> JNull

\* The ".2f" of line 360: thousandths rounded to the nearest cent (no sample
\* ends in 5, where the result would depend on the float's binary value).
FormatCents(n) == (n + 5) \div 10

\* Lines 328-370: what the run shows for an HTTP outcome.  `raised` is an
\* exception no except clause catches.
HandleResponse(http) ==
    IF http.kind = "network_error"
    THEN [messages |-> {"err_request_failed"}, fare |-> {}, raised |-> FALSE]
    ELSE IF http.status = 405
    THEN [messages |-> {"err_405"}, fare |-> {}, raised |-> FALSE]
    ELSE IF http.status >= 400
    THEN [messages |-> {"err_http"}, fare |-> {}, raised |-> FALSE]
    ELSE IF http.body.content = "text"
    \* resp.json() raises requests.JSONDecodeError, a RequestException
    THEN [messages |-> {"err_request_failed"}, fare |-> {}, raised |-> FALSE]
    ELSE LET data == IF http.body.content = "empty" THEN JNull
                     ELSE http.body.json
             prediction == ParsePrediction(data)
         IN  IF prediction = JNull
             THEN [messages |-> {"err_parse"}, fare |-> {}, raised |-> FALSE]
             ELSE IF Float(prediction) = {}
             THEN [messages |-> {}, fare |-> {}, raised |-> TRUE]
             ELSE [messages |-> {"success_fare"},
                   fare |-> {FormatCents(CHOOSE x \in Float(prediction) : TRUE)},
                   raised |-> FALSE]

-----------------------------------------------------------------------------
(* The script run *)

Init ==
    /\ session_state = InitialSession
    /\ geocode_cache = <<>>
    /\ reverse_cache = <<>>
    /\ last_clicked = None
    /\ secrets = {}
    /\ pc = "idle"
    /\ trigger = "none"
    /\ messages = {}
    /\ sent = <<>>
    /\ resp = {}
    /\ fare_shown = {}
    /\ form = {}
    /\ lookups = <<>>
    /\ provider_calls = [geocode |-> [a \in Addresses |-> 0],
                         reverse |-> [loc \in Locations |-> 0]]
    /\ clickNo = 0
    /\ clicks_only = TRUE

\* A run that starts with an event other than a map click ends a click-only
\* sequence.
StartRun(t) ==
    /\ pc = "idle"
    /\ trigger' = t
    /\ clickNo' = IF t = "click" THEN clickNo ELSE -1
    /\ clicks_only' = (clicks_only /\ t \in {"click", "clear"})

\* A run whose sidebar shows nothing and calls nothing.
QuietSidebar ==
    /\ messages' = {}
    /\ sent' = <<>>
    /\ resp' = {}
    /\ fare_shown' = {}
    /\ form' = {}
    /\ lookups' = <<>>
    /\ UNCHANGED <<geocode_cache, secrets, provider_calls>>
    /\ pc' = "map"

\* The user edits the pickup address: line 227 stores the widget's value.
EditPickup ==
    \E a \in Addresses :
        /\ a # session_state.pickup_address
        /\ StartRun("edit")
        /\ session_state' = [session_state EXCEPT !.pickup_address = a]
        /\ QuietSidebar
        /\ UNCHANGED <<reverse_cache, last_clicked>>

\* The user edits the dropoff address: line 244 stores the widget's value.
EditDropoff ==
    \E a \in Addresses :
        /\ a # session_state.dropoff_address
        /\ StartRun("edit")
        /\ session_state' = [session_state EXCEPT !.dropoff_address = a]
        /\ QuietSidebar
        /\ UNCHANGED <<reverse_cache, last_clicked>>

\* The user moves the slider or changes the date or time (lines 279-283).
ChangeOtherWidget ==
    /\ StartRun("other")
    /\ QuietSidebar
    /\ UNCHANGED <<session_state, reverse_cache, last_clicked>>

\* The user presses "Locate on map".
PressLocate ==
    \E o1 \in OutcomesFor(geocode_cache, session_state.pickup_address, TRUE),
       o2 \in OutcomesFor(geocode_cache, session_state.dropoff_address, TRUE) :
        LET h == LocateHandler(session_state, geocode_cache, o1, o2)
        IN  /\ StartRun("locate")
            /\ session_state' = h.state
            /\ geocode_cache' = h.cache
            /\ lookups' = h.log
            /\ provider_calls' =
                   [provider_calls EXCEPT !.geocode = Counted(@, h.provider)]
            /\ form' = {}
            /\ messages' = h.messages
            /\ sent' = <<>>
            /\ resp' = {}
            /\ fare_shown' = {}
            /\ pc' = "map"
            /\ UNCHANGED <<reverse_cache, last_clicked, secrets>>

\* Mutant: the validation error is shown and the request goes out all the same.
PressEstimateInvalidStillSends ==
    \E o1 \in OutcomesFor(geocode_cache, session_state.pickup_address,
                          session_state.pickup_coords = None),
       o2 \in OutcomesFor(geocode_cache, session_state.dropoff_address,
                          session_state.dropoff_coords = None) :
        LET g == EstimateGeocode(session_state, geocode_cache, o1, o2)
        IN  /\ CoordsMissing(g.state)
            /\ StartRun("estimate")
            /\ session_state' = g.state
            /\ geocode_cache' = g.cache
            /\ lookups' = g.log
            /\ provider_calls' =
                   [provider_calls EXCEPT !.geocode = Counted(@, g.provider)]
            /\ messages' = {"err_coords_required"}
            /\ form' = {}
            /\ sent' = <<[url |-> PredictUrl(<<>>), query |-> <<>>]>>
            /\ resp' = {}
            /\ fare_shown' = {}
            /\ pc' = "map"
            /\ UNCHANGED <<reverse_cache, last_clicked, secrets>>

\* The user presses "Estimate fare" without both coordinates resolvable.
PressEstimateInvalid ==
    \E o1 \in OutcomesFor(geocode_cache, session_state.pickup_address,
                          session_state.pickup_coords = None),
       o2 \in OutcomesFor(geocode_cache, session_state.dropoff_address,
                          session_state.dropoff_coords = None) :
        LET g == EstimateGeocode(session_state, geocode_cache, o1, o2)
        IN  /\ CoordsMissing(g.state)
            /\ StartRun("estimate")
            /\ session_state' = g.state
            /\ geocode_cache' = g.cache
            /\ lookups' = g.log
            /\ provider_calls' =
                   [provider_calls EXCEPT !.geocode = Counted(@, g.provider)]
            /\ messages' = {"err_coords_required"}
            /\ form' = {}
            /\ sent' = <<>>
            /\ resp' = {}
            /\ fare_shown' = {}
            /\ pc' = "map"
            /\ UNCHANGED <<reverse_cache, last_clicked, secrets>>

\* The user presses "Estimate fare" and no usable SERVICE_URL is configured.
PressEstimateNoUrl ==
    \E o1 \in OutcomesFor(geocode_cache, session_state.pickup_address,
                          session_state.pickup_coords = None),
       o2 \in OutcomesFor(geocode_cache, session_state.dropoff_address,
                          session_state.dropoff_coords = None) :
        LET g == EstimateGeocode(session_state, geocode_cache, o1, o2)
        IN  /\ ~CoordsMissing(g.state)
            /\ StartRun("estimate")
            /\ session_state' = g.state
            /\ geocode_cache' = g.cache
            /\ lookups' = g.log
            /\ provider_calls' =
                   [provider_calls EXCEPT !.geocode = Counted(@, g.provider)]
            /\ \E sec \in SecretsChoices :
                LET u == LookupServiceUrl(sec)
                IN  /\ ~UrlTruthy(u.service_url)
                    /\ secrets' = {sec}
                    /\ messages' = IF u.error THEN {"err_no_api_url"} ELSE {}
            /\ form' = {}
            /\ sent' = <<>>
            /\ resp' = {}
            /\ fare_shown' = {}
            /\ pc' = "map"
            /\ UNCHANGED <<reverse_cache, last_clicked>>

\* The user presses "Estimate fare" and the request is made.
PressEstimateRequest ==
    \E o1 \in OutcomesFor(geocode_cache, session_state.pickup_address,
                          session_state.pickup_coords = None),
       o2 \in OutcomesFor(geocode_cache, session_state.dropoff_address,
                          session_state.dropoff_coords = None) :
        LET g == EstimateGeocode(session_state, geocode_cache, o1, o2)
        IN  /\ ~CoordsMissing(g.state)
            /\ StartRun("estimate")
            /\ session_state' = g.state
            /\ geocode_cache' = g.cache
            /\ lookups' = g.log
            /\ provider_calls' =
                   [provider_calls EXCEPT !.geocode = Counted(@, g.provider)]
            /\ \E sec \in SecretsChoices :
                LET u == LookupServiceUrl(sec)
                IN  /\ UrlTruthy(u.service_url)
                    /\ secrets' = {sec}
                    /\ \E passengers \in PassengerChoices, d \in DateChoices,
                          t \in TimeChoices :
                        /\ form' = {[passengers |-> passengers, date |-> d,
                                     time |-> t]}
                        /\ sent' = <<FareRequest(
                                      CHOOSE x \in u.service_url : TRUE,
                                      BuildPayload(g.state, passengers, d, t))>>
            /\ \E http \in HttpOutcomes :
                LET r == HandleResponse(http)
                IN  /\ resp' = {http}
                    /\ messages' = r.messages
                           \cup (IF r.raised THEN {"exception"} ELSE {})
                    /\ fare_shown' = r.fare
                    /\ pc' = IF r.raised THEN "end" ELSE "map"
            /\ UNCHANGED <<reverse_cache, last_clicked>>

\* The user clicks the map: the component's value takes the click.
MapClick ==
    \E loc \in Locations :
        /\ StartRun("click")
        /\ last_clicked' = loc
        /\ QuietSidebar
        /\ UNCHANGED <<session_state, reverse_cache>>

\* The user presses "Clear coordinates"; the button is read at line 464.
PressClear ==
    /\ StartRun("clear")
    /\ QuietSidebar
    /\ UNCHANGED <<session_state, reverse_cache, last_clicked>>

\* Lines 428-460.  In the run a click starts, st_folium returns the click;
\* in any other run the component either still holds its last value or has
\* been mounted anew and holds none.
MapStep ==
    /\ pc = "map"
    /\ \E map_data \in (IF trigger = "click" THEN {last_clicked}
                        ELSE {last_clicked, None}) :
       \E outcome \in OutcomesFor(reverse_cache, map_data, map_data # None) :
        /\ last_clicked' = map_data
        /\ IF map_data # None
           THEN LET lat == map_data[1]
                    lon == map_data[2]
                    rev == reverse_geocode(reverse_cache, lat, lon, outcome)
                    h   == ClickHandler(session_state, lat, lon, rev.result)
                IN  /\ reverse_cache' = rev.cache
                    /\ provider_calls' =
                           [provider_calls EXCEPT
                               !.reverse = Counted(@, rev.provider)]
                    /\ lookups' = lookups \o rev.log
                    /\ session_state' = h.state
                    /\ messages' = messages \cup {h.message}
                    /\ clickNo' = IF trigger = "click" /\ clickNo >= 0
                                     /\ clickNo < MaxClicks
                                  THEN clickNo + 1 ELSE -1
           ELSE UNCHANGED <<reverse_cache, provider_calls, lookups,
                            session_state, messages, clickNo>>
    \* line 464: the script goes on into the button's body only when pressed
    /\ pc' = IF trigger = "clear" THEN "clear" ELSE "end"
    /\ UNCHANGED <<geocode_cache, secrets, trigger, sent, resp, fare_shown,
                   form, clicks_only>>

\* Lines 465-469, "Clear coordinates" pressed.  The session is EMPTY again.
ClearStep ==
    /\ pc = "clear"
    /\ session_state' = ClearHandler(session_state)
    /\ messages' = messages \cup {"cleared"}
    /\ clickNo' = 0
    /\ pc' = "end"
    /\ UNCHANGED <<geocode_cache, reverse_cache, last_clicked, secrets,
                   trigger, sent, resp, fare_shown, form, lookups,
                   provider_calls, clicks_only>>

\* The run is over: its locals and its output are dropped, the session state,
\* the memos and the map component's value stay.
EndRun ==
    /\ pc = "end"
    /\ pc' = "idle"
    /\ trigger' = "none"
    /\ messages' = {}
    /\ sent' = <<>>
    /\ resp' = {}
    /\ fare_shown' = {}
    /\ secrets' = {}
    /\ form' = {}
    /\ lookups' = <<>>
    /\ UNCHANGED <<session_state, geocode_cache, reverse_cache, last_clicked,
                   provider_calls, clickNo, clicks_only>>

Next ==
    \/ EditPickup
    \/ EditDropoff
    \/ ChangeOtherWidget
    \/ PressLocate
    \/ PressEstimateInvalid
    \/ PressEstimateNoUrl
    \/ PressEstimateRequest
    \/ MapClick
    \/ PressClear
    \/ MapStep
    \/ ClearStep
    \/ EndRun

Spec == Init /\ [][Next]_vars

-----------------------------------------------------------------------------
(* Properties *)

sess == session_state

\* The sidebar of a run started by event t has just been executed.
SidebarDone(t) == pc = "idle" /\ trigger' = t

\* The click handler has just been executed (the map reported a click).
ClickHandled == pc = "map" /\ last_clicked' # None

\* The result geocode_address gave for an address in the step just taken.
Geocoded(address) == geocode_cache'[address]

\* C1: in a sequence of clicks from EMPTY with nothing else in between, the
\* N-th click sets pickup_coords to the click location when N is odd and
\* dropoff_coords when N is even, and every odd click from the third on
\* leaves dropoff_coords absent.
C1_ClickParity ==
    (trigger = "click" /\ pc = "end" /\ clickNo > 0) =>
        /\ (clickNo % 2 = 1 => sess.pickup_coords = last_clicked)
        /\ (clickNo % 2 = 0 => sess.dropoff_coords = last_clicked)
        /\ (clickNo % 2 = 1 /\ clickNo >= 3 => sess.dropoff_coords = None)

C1_Witness ==
    /\ trigger = "click" /\ pc = "end" /\ clickNo = 3
    /\ sess.pickup_coords = <<41, -73>> /\ sess.dropoff_coords = None

\* C2: an Estimate action sends a request only with both coordinates present
\* after the on-demand geocoding; with one still absent it shows the
\* validation error and sends nothing.
C2_RequestOnlyWithBothCoords ==
    [][SidebarDone("estimate") =>
         /\ (sent' # <<>> => sess'.pickup_coords # None /\ sess'.dropoff_coords # None)
         /\ (sess'.pickup_coords = None \/ sess'.dropoff_coords = None =>
                sent' = <<>> /\ "err_coords_required" \in messages')]_vars

C2_Witness ==
    /\ trigger = "estimate" /\ pc = "map"
    /\ "err_coords_required" \in messages /\ sent = <<>>
    /\ sess.pickup_coords = None /\ sess.dropoff_coords = None
    /\ sess.pickup_address = <<"a">> /\ geocode_cache[<<"a">>] = None

\* C3: a click whose reverse geocoding fails still sets the coordinate the
\* fill state selects, and leaves that side's address as it was.
C3_ReverseFailureKeepsAddress ==
    [][ClickHandled /\ reverse_cache'[last_clicked'] = {} =>
         IF sess.pickup_coords = None
         THEN /\ sess'.pickup_coords = last_clicked'
              /\ sess'.pickup_address = sess.pickup_address
         ELSE IF sess.dropoff_coords = None
         THEN /\ sess'.dropoff_coords = last_clicked'
              /\ sess'.dropoff_address = sess.dropoff_address
         ELSE /\ sess'.pickup_coords = last_clicked'
              /\ sess'.pickup_address = sess.pickup_address]_vars

C3_Witness ==
    /\ pc = "end" /\ trigger = "click" /\ "dropoff_selected" \in messages
    /\ reverse_cache[last_clicked] = {}
    /\ sess.dropoff_coords = last_clicked /\ sess.dropoff_address = <<"a">>

\* C4: after Clear, from any state, both coordinates are absent and both
\* addresses are empty.
C4_ClearYieldsEmpty ==
    (trigger = "clear" /\ pc = "end") =>
        /\ sess.pickup_coords = None /\ sess.dropoff_coords = None
        /\ sess.pickup_address = <<>> /\ sess.dropoff_address = <<>>

C4_Witness ==
    /\ trigger = "clear" /\ pc = "end" /\ "cleared" \in messages
    /\ "dropoff_selected" \in messages /\ geocode_cache # <<>>
    /\ sess = InitialSession

\* C5: a click with both coordinates present sets pickup_coords to the click
\* location, clears dropoff_coords and dropoff_address, and changes
\* pickup_address only to the address a successful reverse geocoding gave.
C5_ClickOnBothRestarts ==
    [][ClickHandled /\ sess.pickup_coords # None /\ sess.dropoff_coords # None =>
         /\ sess'.pickup_coords = last_clicked'
         /\ sess'.dropoff_coords = None
         /\ sess'.dropoff_address = <<>>
         /\ IF reverse_cache'[last_clicked'] = {}
            THEN sess'.pickup_address = sess.pickup_address
            ELSE {sess'.pickup_address} = reverse_cache'[last_clicked']]_vars

C5_Witness ==
    /\ pc = "end" /\ trigger = "locate" /\ "restart" \in messages
    /\ sess.pickup_coords = <<41, -73>> /\ sess.dropoff_coords = None
    /\ sess.dropoff_address = <<>> /\ sess.pickup_address = <<" ">>

IsNumber(v) == v.t = "num"

PrescribedFare(data) ==
    IF IsNumber(data) THEN {data.n}
    ELSE IF data.t # "obj" THEN {}
    ELSE IF IsNumber(Get(data, "prediction")) THEN {Get(data, "prediction").n}
    ELSE IF IsNumber(Get(data, "fare")) THEN {Get(data, "fare").n}
    ELSE IF IsNumber(Get(data, "pred")) THEN {Get(data, "pred").n}
    ELSE LET first == First(Get(data, "predictions"))
         IN  IF Get(data, "predictions").t = "list" /\ first # {}
                /\ IsNumber(CHOOSE x \in first : TRUE)
             THEN {(CHOOSE x \in first : TRUE).n}
             ELSE {}

\* C7: for a success response the fare shown is the one the response shapes
\* prescribe (a number under a known key counts whatever its value, 0
\* included) and no parse error is reported; when no shape matches, no fare
\* is shown.
C7_ParsedFareAsPrescribed ==
    \A http \in resp :
        (http.kind = "response" /\ http.status = 200
         /\ http.body.content = "json") =>
            LET fare == PrescribedFare(http.body.json)
            IN  IF fare = {}
                THEN fare_shown = {} /\ "success_fare" \notin messages
                ELSE /\ fare_shown = {FormatCents(CHOOSE x \in fare : TRUE)}
                     /\ "err_parse" \notin messages

\* C8: when Locate, or Estimate with both coordinates absent, geocodes one
\* side only, the found coordinate is stored, the other side stays as it was,
\* and the message names the side that failed.
C8_PartialSuccessNamesFailedSide ==
    [][(\/ SidebarDone("locate")
        \/ /\ SidebarDone("estimate")
           /\ sess.pickup_coords = None /\ sess.dropoff_coords = None) =>
         /\ (Geocoded(sess.pickup_address) # None
             /\ Geocoded(sess.dropoff_address) = None =>
                /\ sess'.pickup_coords = Geocoded(sess.pickup_address)
                /\ sess'.dropoff_coords = sess.dropoff_coords
                /\ "warn_dropoff_geocode" \in messages'
                /\ "warn_pickup_geocode" \notin messages')
         /\ (Geocoded(sess.pickup_address) = None
             /\ Geocoded(sess.dropoff_address) # None =>
                /\ sess'.dropoff_coords = Geocoded(sess.dropoff_address)
                /\ sess'.pickup_coords = sess.pickup_coords
                /\ "warn_pickup_geocode" \in messages'
                /\ "warn_dropoff_geocode" \notin messages')]_vars

\* The error messages of the Estimate handler.
EstimateErrors ==
    {"err_coords_required", "err_no_api_url", "err_parse", "err_405",
     "err_http", "err_request_failed"}

\* C9: every Estimate action ends with the fare or an error message shown,
\* and no exception leaves the handler.
C9_EstimateAlwaysShowsOutcome ==
    (trigger = "estimate" /\ pc # "idle") =>
        /\ "exception" \notin messages
        /\ (fare_shown # {} \/ messages \cap EstimateErrors # {})

\* C10: with SERVICE_URL absent, an Estimate action with both coordinates
\* present shows the configuration error, which is not the transport error,
\* and sends no request.
C10_MissingUrlIsConfigurationError ==
    secrets = {{}} =>
        /\ "err_no_api_url" \in messages
        /\ messages \cap {"err_request_failed", "err_http", "err_405"} = {}
        /\ sent = <<>>
        /\ resp = {}

C10_Witness ==
    /\ secrets = {{}} /\ trigger = "estimate" /\ pc = "map"
    /\ sess.pickup_coords # None /\ sess.dropoff_coords # None
    /\ "err_no_api_url" \in messages /\ sent = <<>>

\* The value a query carries under a key.
QueryValue(query, key) ==
    LET i == CHOOSE j \in 1..Len(query) : query[j][1] = key IN query[i][2]

\* The text a query value stands for ("+" is a space, "%3A" a colon).
Unquoted(s) ==
    [i \in 1..Len(s) |->
        IF s[i] = "+" THEN " " ELSE IF s[i] = "%3A" THEN ":" ELSE s[i]]

\* The number written by the decimal digits s[a..b].
RECURSIVE NumberAt(_, _, _)
NumberAt(s, a, b) ==
    IF b < a THEN 0
    ELSE 10 * NumberAt(s, a, b - 1)
         + (CHOOSE n \in 0..9 : ToString(n) = s[b])

\* A text "YYYY-MM-DD hh:mm:ss" names the date d and the time t.
NamesDateTime(s, d, t) ==
    /\ Len(s) = 19
    /\ <<s[5], s[8], s[11], s[14], s[17]>> = <<"-", "-", " ", ":", ":">>
    /\ NumberAt(s, 1, 4) = d.year
    /\ NumberAt(s, 6, 7) = d.month
    /\ NumberAt(s, 9, 10) = d.day
    /\ NumberAt(s, 12, 13) = t.hour
    /\ NumberAt(s, 15, 16) = t.minute
    /\ NumberAt(s, 18, 19) = t.second

\* C11: the request an Estimate action sends carries each side's latitude and
\* longitude under that side's keys, the selected passenger count, and the
\* selected pickup date and time as pickup_datetime.
C11_PayloadMatchesSelection ==
    [][(SidebarDone("estimate") /\ sent' # <<>>) =>
          LET q == sent'[1].query
              f == CHOOSE x \in form' : TRUE
          IN  /\ Len(sent') = 1
              /\ form' # {}
              /\ Len(q) = 6
              /\ QueryValue(q, "pickup_latitude") = <<sess'.pickup_coords[1]>>
              /\ QueryValue(q, "pickup_longitude") = <<sess'.pickup_coords[2]>>
              /\ QueryValue(q, "dropoff_latitude") = <<sess'.dropoff_coords[1]>>
              /\ QueryValue(q, "dropoff_longitude") = <<sess'.dropoff_coords[2]>>
              /\ QueryValue(q, "passenger_count") = <<f.passengers>>
              /\ NamesDateTime(Unquoted(QueryValue(q, "pickup_datetime")),
                               f.date, f.time)]_vars

C11_Witness ==
    /\ trigger = "estimate" /\ pc = "map" /\ sent # <<>>
    /\ sess.pickup_coords = <<41, -73>> /\ sess.dropoff_coords = <<40, -74>>
    /\ \E f \in form : f.passengers = PassengersMax

\* The memo of the function a lookup went to.
MemoOf(fn, geo, rev) == IF fn = "geocode" THEN geo ELSE rev

\* C12: the provider is invoked at most once per address (forward) and per
\* coordinate pair (reverse); a memoized input keeps its result and costs no
\* further invocation, and every lookup returns the memoized result.
C12_ProviderOncePerInput ==
    [][/\ \A a \in Addresses : provider_calls'.geocode[a] <= 1
       /\ \A loc \in Locations : provider_calls'.reverse[loc] <= 1
       /\ \A a \in DOMAIN geocode_cache :
             /\ a \in DOMAIN geocode_cache'
             /\ geocode_cache'[a] = geocode_cache[a]
             /\ provider_calls'.geocode[a] = provider_calls.geocode[a]
       /\ \A loc \in DOMAIN reverse_cache :
             /\ loc \in DOMAIN reverse_cache'
             /\ reverse_cache'[loc] = reverse_cache[loc]
             /\ provider_calls'.reverse[loc] = provider_calls.reverse[loc]
       /\ \A i \in DOMAIN lookups' :
             LET memo == MemoOf(lookups'[i].fn, geocode_cache', reverse_cache')
             IN  /\ lookups'[i].key \in DOMAIN memo
                 /\ lookups'[i].result = memo[lookups'[i].key]]_vars

C12_Witness ==
    /\ provider_calls.geocode[<<"a">>] = 1
    /\ \E loc \in Locations : provider_calls.reverse[loc] = 1
    /\ \E i, j \in DOMAIN lookups :
          /\ lookups[i].fn = "geocode" /\ lookups[i].hit
          /\ lookups[i].key = <<"a">>
          /\ lookups[j].fn = "reverse" /\ lookups[j].hit
          /\ provider_calls.reverse[lookups[j].key] = 1

\* An address made of spaces only, the empty one included.
OnlySpaces(address) == \A i \in 1..Len(address) : address[i] = " "

\* C13: for an empty or whitespace-only address the provider is never
\* invoked and geocode_address returns None, whichever handler called it.
C13_BlankAddressSkipsProvider ==
    \A a \in Addresses :
        OnlySpaces(a) =>
            /\ provider_calls.geocode[a] = 0
            /\ a \in DOMAIN geocode_cache => geocode_cache[a] = None
            /\ \A i \in DOMAIN lookups :
                  (lookups[i].fn = "geocode" /\ lookups[i].key = a)
                      => lookups[i].result = None

C13_Witness ==
    /\ trigger = "estimate" /\ pc = "map"
    /\ Len(lookups) = 2
    /\ lookups[1].key = <<" ">> /\ ~lookups[1].hit
    /\ lookups[2].key = <<>> /\ lookups[2].hit
    /\ provider_calls.geocode[<<" ">>] = 0
    /\ "err_coords_required" \in messages

\* C14: in a run triggered by another action while the map widget still
\* reports the click of an earlier run, the click handler changes no
\* coordinate and no address.
C14_ClickAppliedOnce ==
    [][(pc = "map" /\ trigger # "click"
        /\ last_clicked # None /\ last_clicked' = last_clicked)
          => session_state' = session_state]_vars

\* The addresses an Estimate action may geocode: those of the absent sides.
AbsentSides(ss) ==
    (IF ss.pickup_coords = None THEN <<ss.pickup_address>> ELSE <<>>)
    \o (IF ss.dropoff_coords = None THEN <<ss.dropoff_address>> ELSE <<>>)

C16_ClickFillsMissingPickup ==
    [][/\ (ClickHandled /\ sess.pickup_coords = None
                        /\ sess.dropoff_coords # None) =>
             /\ sess'.pickup_coords = last_clicked'
             /\ sess'.dropoff_coords = sess.dropoff_coords
             /\ sess'.dropoff_address = sess.dropoff_address
       /\ clicks_only' =>
             (sess'.dropoff_coords # None => sess'.pickup_coords # None)]_vars

C16_Witness ==
    /\ trigger = "click" /\ pc = "end" /\ "pickup_selected" \in messages
    /\ sess.pickup_coords = <<41, -73>> /\ last_clicked = <<41, -73>>
    /\ sess.dropoff_coords = <<40, -74>> /\ sess.dropoff_address = <<"a">>
    /\ ~clicks_only

\* geocode_address has returned None for the address in an earlier call.
FailedBefore(address) ==
    address \in DOMAIN geocode_cache /\ geocode_cache[address] = None

\* C17: once geocode_address has returned None for an address, a later
\* Locate or Estimate looking it up gets None from the memo with no provider
\* call: Locate warns and keeps that side's coordinate, Estimate with that
\* side's coordinate absent shows the validation error and sends nothing.
C17_FailureIsMemoized ==
    [][(SidebarDone("locate") \/ SidebarDone("estimate")) =>
          \A a \in Addresses :
              FailedBefore(a) =>
                  /\ Geocoded(a) = None
                  /\ provider_calls'.geocode[a] = provider_calls.geocode[a]
                  /\ \A i \in DOMAIN lookups' :
                        lookups'[i].key = a =>
                            lookups'[i].hit /\ lookups'[i].result = None
                  /\ (trigger' = "locate" /\ sess.pickup_address = a) =>
                        /\ "warn_pickup_geocode" \in messages'
                        /\ sess'.pickup_coords = sess.pickup_coords
                  /\ (trigger' = "locate" /\ sess.dropoff_address = a) =>
                        /\ "warn_dropoff_geocode" \in messages'
                        /\ sess'.dropoff_coords = sess.dropoff_coords
                  /\ (trigger' = "estimate"
                      /\ \/ sess.pickup_coords = None
                            /\ sess.pickup_address = a
                         \/ sess.dropoff_coords = None
                            /\ sess.dropoff_address = a) =>
                        /\ "err_coords_required" \in messages'
                        /\ sent' = <<>>
                        /\ fare_shown' = {}]_vars

C17_Witness ==
    /\ trigger = "estimate" /\ pc = "map"
    /\ sess.pickup_address = <<"a">> /\ sess.pickup_coords = None
    /\ provider_calls.geocode[<<"a">>] = 1
    /\ Len(lookups) >= 1
    /\ lookups[1].key = <<"a">> /\ lookups[1].hit
    /\ lookups[1].result = None
    /\ "err_coords_required" \in messages

====
